---- MODULE Spec2Model ----
\* Model of the Game of Life engine of src/src/main.rs: the sparse cell store,
\* the run/pause flag, the tick accumulator and the three systems that mutate
\* them (toggle_simulating, detect_mouse_click, simulate).
EXTENDS Integers, Sequences, FiniteSets, TLC

\* ------------------------------------------------------------------ bounds
\* Width of a coordinate in bits (i64 in the code, two's complement).
CoordBits == 3
\* Largest x a click addresses (the cells (0,0)..(ClickMaxX,0)).
ClickMaxX == 2
\* Largest number of live cells of a drawn pattern.
MaxDrawn == 6
\* Largest number of generations a behaviour executes.
MaxGen == 2
\* Largest value the accumulator is followed to (it grows without bound while
\* paused).
MaxElapsed == 16

\* ------------------------------------------------------- program constants
\* The tick threshold, 0.1 s, in integer time units of 1/30 s.
Threshold == 3

\* ---------------------------------------------------------------- integers
MinCoord == -(2 ^ (CoordBits - 1))
MaxCoord == (2 ^ (CoordBits - 1)) - 1
Coord == MinCoord..MaxCoord

\* a + d leaves the range of the coordinate type.
Overflows(a, d) == (a + d) \notin Coord

\* a + d as the machine computes it when overflow is not checked (wrapping).
WrapAdd(a, d) == ((a + d - MinCoord) % (2 ^ CoordBits)) + MinCoord

\* i8 addition of the score counter (wrapping at 8 bits).
I8Add(a, d) == ((a + d + 128) % 256) - 128

\* ---------------------------------------------------------------- the maps
EmptyMap == [p \in {} |-> "On"]

\* HashMap::insert
MapInsert(m, k, v) == [q \in (DOMAIN m) \cup {k} |-> IF q = k THEN v ELSE m[q]]

\* HashMap::remove
MapRemove(m, k) == [q \in (DOMAIN m) \ {k} |-> m[q]]

\* The coordinates the store holds as On.
Alive(m) == {p \in DOMAIN m : m[p] = "On"}

\* ------------------------------------------------------------------- state
VARIABLES
    cells,            \* World.cells: coordinate -> CellState
    simulating,       \* World.simulating
    time_since_tick,  \* World.time_since_tick, in integer time units
    overflow_checks,  \* the build profile: TRUE when overflow panics (debug)
    crashed,          \* a system has panicked: the process is gone
    pc,               \* position inside simulate's two loops ("idle" between calls)
    neighbourhood_score, \* simulate's local scoring map
    cells_todo,       \* cells the first loop has yet to visit
    score_todo,       \* scoring-map entries the second loop has yet to visit
    generation,       \* history: number of generations executed
    toggled,          \* history: a toggle command has been executed
    killed,           \* history: coordinates cleared by an edit and not revived since
    elapsed,          \* history: sum of the frames' deltas since the last generation
    last              \* history: the last system call and what it saw

vars == <<cells, simulating, time_since_tick, overflow_checks, crashed, pc,
          neighbourhood_score, cells_todo, score_todo, generation, toggled,
          killed, elapsed, last>>

\* ------------------------------------------------- the generation algorithm
\* (mutant) the last offset repeats the fifth.
Offsets_Repeated == << <<-1, -1>>, <<0, -1>>, <<1, -1>>, <<-1, 0>>,
                       <<1, 0>>, <<-1, 1>>, <<0, 1>>, <<1, 0>> >>

\* The eight neighbour offsets, in the order simulate visits them.
Offsets == << <<-1, -1>>, <<0, -1>>, <<1, -1>>, <<-1, 0>>,
              <<1, 0>>, <<-1, 1>>, <<0, 1>>, <<1, 1>> >>

\* The neighbour coordinate simulate computes for offset i of position
\* (unchecked arithmetic).
NeighbourAt(position, i) ==
    <<WrapAdd(position[1], Offsets[i][1]), WrapAdd(position[2], Offsets[i][2])>>

\* Computing the neighbours of position overflows the coordinate type.
CellOverflows(position) ==
    \E i \in 1..Len(Offsets) :
        \/ Overflows(position[1], Offsets[i][1])
        \/ Overflows(position[2], Offsets[i][2])

\* (mutant) the first increment of a coordinate inserts 0.
AddScore_FromZero(score, q) ==
    IF q \notin DOMAIN score
    THEN MapInsert(score, q, 0)
    ELSE [score EXCEPT ![q] = I8Add(@, 1)]

\* get_mut(q): insert 1 when absent, else add 1. (The map s is bound before
\* it is edited.)
AddScore(score, q) ==
    CHOOSE result \in
        {IF q \notin DOMAIN s
         THEN MapInsert(s, q, 1)
         ELSE [s EXCEPT ![q] = I8Add(@, 1)] : s \in {score}} : TRUE

\* (mutant) the last of the eight increments is missing.
AddNeighbours_SkipLast(score, position) ==
    LET s1 == AddScore(score, NeighbourAt(position, 1))
        s2 == AddScore(s1, NeighbourAt(position, 2))
        s3 == AddScore(s2, NeighbourAt(position, 3))
        s4 == AddScore(s3, NeighbourAt(position, 4))
        s5 == AddScore(s4, NeighbourAt(position, 5))
        s6 == AddScore(s5, NeighbourAt(position, 6))
    IN  AddScore(s6, NeighbourAt(position, 7))

\* The eight increments of one cell, in the order of Offsets.
AddNeighbours(score, position) ==
    LET s1 == AddScore(score, NeighbourAt(position, 1))
        s2 == AddScore(s1, NeighbourAt(position, 2))
        s3 == AddScore(s2, NeighbourAt(position, 3))
        s4 == AddScore(s3, NeighbourAt(position, 4))
        s5 == AddScore(s4, NeighbourAt(position, 5))
        s6 == AddScore(s5, NeighbourAt(position, 6))
        s7 == AddScore(s6, NeighbourAt(position, 7))
    IN  AddScore(s7, NeighbourAt(position, 8))

\* (mutant) the cell gets no entry of its own.
EnsureOwn_Skipped(score, position) == score

\* (mutant) the cell's own entry is set to 0 whether or not it has one.
EnsureOwn_Reset(score, position) == MapInsert(score, position, 0)

\* The cell's own entry: inserted with 0 when it has none.
EnsureOwn(score, position) ==
    IF position \notin DOMAIN score THEN MapInsert(score, position, 0) ELSE score

\* The body of simulate's first loop for one entry of the store.
ScoreCell(score, m, position) ==
    IF m[position] = "On"
    THEN EnsureOwn(AddNeighbours(score, position), position)
    ELSE score

\* (mutant) a live cell survives on a score of 2 only.
ApplyRule_Survive2(m, position, score) ==
    LET present == position \in DOMAIN m
    IN  IF (~present \/ m[position] = "Off") /\ score = 3
        THEN MapInsert(m, position, "On")
        ELSE IF (present /\ m[position] = "On") /\ score = 2
        THEN MapInsert(m, position, "On")
        ELSE IF present
        THEN MapRemove(m, position)
        ELSE m

\* (mutant) a dead cell is born on a score of 2 as well.
ApplyRule_Birth2(m, position, score) ==
    LET present == position \in DOMAIN m
    IN  IF (~present \/ m[position] = "Off") /\ (score = 2 \/ score = 3)
        THEN MapInsert(m, position, "On")
        ELSE IF (present /\ m[position] = "On") /\ (score = 2 \/ score = 3)
        THEN MapInsert(m, position, "On")
        ELSE IF present
        THEN MapRemove(m, position)
        ELSE m

\* (mutant) a cell that dies is stored as Off instead of being removed.
ApplyRule_StoreOff(m, position, score) ==
    LET present == position \in DOMAIN m
    IN  IF (~present \/ m[position] = "Off") /\ score = 3
        THEN MapInsert(m, position, "On")
        ELSE IF (present /\ m[position] = "On") /\ (score = 2 \/ score = 3)
        THEN MapInsert(m, position, "On")
        ELSE IF present
        THEN MapInsert(m, position, "Off")
        ELSE m

\* (mutant) a cell that dies is left in the store.
ApplyRule_NoRemove(m, position, score) ==
    LET present == position \in DOMAIN m
    IN  IF (~present \/ m[position] = "Off") /\ score = 3
        THEN MapInsert(m, position, "On")
        ELSE IF (present /\ m[position] = "On") /\ (score = 2 \/ score = 3)
        THEN MapInsert(m, position, "On")
        ELSE m

\* The body of simulate's second loop for one entry of the scoring map: the
\* store is edited in place.
ApplyRule(m, position, score) ==
    LET present == position \in DOMAIN m
    IN  IF (~present \/ m[position] = "Off") /\ score = 3
        THEN MapInsert(m, position, "On")
        ELSE IF (present /\ m[position] = "On") /\ (score = 2 \/ score = 3)
        THEN MapInsert(m, position, "On")
        ELSE IF present
        THEN MapRemove(m, position)
        ELSE m

\* The first loop over the entries todo of the store m, in some iteration
\* order. (Each iteration's result is bound before the following one starts.)
RECURSIVE ScoreAll(_, _, _)
ScoreAll(score, m, todo) ==
    IF todo = {}
    THEN score
    ELSE LET position == CHOOSE p \in todo : TRUE
         IN  CHOOSE result \in {ScoreAll(next, m, rest) :
                                    next \in {ScoreCell(score, m, position)},
                                    rest \in {todo \ {position}}} : TRUE

\* The second loop over the entries todo of the scoring map, in some
\* iteration order.
RECURSIVE ApplyAll(_, _, _)
ApplyAll(m, score, todo) ==
    IF todo = {}
    THEN m
    ELSE LET position == CHOOSE p \in todo : TRUE
         IN  CHOOSE result \in {ApplyAll(next, score, rest) :
                                    next \in {ApplyRule(m, position, score[position])},
                                    rest \in {todo \ {position}}} : TRUE

\* The scoring map simulate builds from the store m.
ScoreMap(m) == ScoreAll([p \in {} |-> 0], m, DOMAIN m)

\* The store after one generation.
StepCells(m) ==
    CHOOSE result \in {ApplyAll(m, score, DOMAIN score) :
                           score \in {ScoreMap(m)}} : TRUE

\* The generation panics: an On cell's neighbour overflows in a build that
\* checks overflow.
StepPanics(m, checks) == checks /\ \E p \in Alive(m) : CellOverflows(p)

\* ------------------------------------------------------- what the claims use
\* The number of live Moore neighbours of c in the live set L, on the
\* unbounded lattice.
NeighbourCount(c, L) ==
    Cardinality({q \in L : /\ q # c
                           /\ q[1] - c[1] \in -1..1
                           /\ q[2] - c[2] \in -1..1})

\* The coordinates a generation revives: dead with exactly 3 live neighbours.
Revived(L, candidates) ==
    {c \in candidates : c \notin L /\ NeighbourCount(c, L) = 3}

\* ------------------------------------------------------------------ history
NoPos == <<0, 0>>

\* The record of a system call: the call (op, and the buttons and cursor of a
\* click or the delta of a frame), what it saw (the run flag was, the
\* accumulator before, the store pre, the generation count gen, the cleared
\* coordinates, the sum of the deltas since the last generation with this
\* frame's), whether it executed a generation (stepped), and rep: 2 when it
\* repeats the call before it (the same click, a toggle right after a toggle,
\* which saw the run flag was2, or a generation right after a generation,
\* whose store was pre2), else 1.
LastSetup ==
    [op |-> "setup", left |-> FALSE, right |-> FALSE, pos |-> NoPos, delta |-> 0,
     before |-> 0, sum |-> 0, was |-> FALSE, gen |-> 0, stepped |-> FALSE,
     pre |-> EmptyMap, pre2 |-> EmptyMap, killed |-> {}, rep |-> 1,
     was2 |-> FALSE]

\* A toggle right after a toggle keeps the run flag the first one saw (was2).
LastToggle ==
    LET again == last.op = "toggle"
    IN  [LastSetup EXCEPT !.op = "toggle", !.was = simulating, !.pre = cells,
                          !.before = time_since_tick, !.sum = elapsed,
                          !.gen = generation, !.killed = killed,
                          !.was2 = IF again THEN last.was ELSE simulating,
                          !.rep = IF again THEN 2 ELSE 1]

\* A click that repeats the previous click keeps the store the first one saw.
LastClick(left, right, pos) ==
    LET same == /\ last.op = "click" /\ last.left = left
                /\ last.right = right /\ last.pos = pos
    IN  [LastSetup EXCEPT !.op = "click", !.left = left, !.right = right,
                          !.pos = pos, !.was = simulating,
                          !.before = time_since_tick, !.sum = elapsed,
                          !.gen = generation,
                          !.killed = IF same THEN last.killed ELSE killed,
                          !.pre = IF same THEN last.pre ELSE cells,
                          !.rep = IF same THEN 2 ELSE 1]

LastSimulate(delta, stepped) ==
    LET again == stepped /\ last.op = "simulate" /\ last.stepped
    IN  [LastSetup EXCEPT !.op = "simulate", !.delta = delta, !.was = simulating,
                          !.before = time_since_tick, !.sum = elapsed + delta,
                          !.gen = generation, !.killed = killed,
                          !.stepped = stepped, !.pre = cells,
                          !.pre2 = IF again THEN last.pre ELSE EmptyMap,
                          !.rep = IF again THEN 2 ELSE 1]

\* -------------------------------------------------------------------- setup
\* (mutant) the world is spawned running.
Init_Running ==
    /\ cells = EmptyMap
    /\ simulating = TRUE
    /\ time_since_tick = 0
    /\ overflow_checks \in BOOLEAN
    /\ crashed = FALSE
    /\ pc = "idle"
    /\ neighbourhood_score = [p \in {} |-> 0]
    /\ cells_todo = {}
    /\ score_todo = {}
    /\ generation = 0
    /\ toggled = FALSE
    /\ killed = {}
    /\ elapsed = 0
    /\ last = LastSetup

Init ==
    /\ cells = EmptyMap
    /\ simulating = FALSE
    /\ time_since_tick = 0
    /\ overflow_checks \in BOOLEAN
    /\ crashed = FALSE
    /\ pc = "idle"
    /\ neighbourhood_score = [p \in {} |-> 0]
    /\ cells_todo = {}
    /\ score_todo = {}
    /\ generation = 0
    /\ toggled = FALSE
    /\ killed = {}
    /\ elapsed = 0
    /\ last = LastSetup

\* A system can run: the process is alive and simulate is not in progress.
Idle == pc = "idle" /\ ~crashed

\* ------------------------------------------------------------------ systems
\* (mutant) Space starts the simulation and never pauses it.
ToggleSimulating_SetRunning ==
    /\ Idle
    /\ simulating' = TRUE
    /\ toggled' = TRUE
    /\ last' = LastToggle
    /\ UNCHANGED <<cells, time_since_tick, overflow_checks, crashed, pc,
                   neighbourhood_score, cells_todo, score_todo, generation, killed,
                   elapsed>>

\* (mutant) Space also restarts the accumulator.
ToggleSimulating_ResetClock ==
    /\ Idle
    /\ simulating' = ~simulating
    /\ time_since_tick' = 0
    /\ toggled' = TRUE
    /\ last' = LastToggle
    /\ UNCHANGED <<cells, overflow_checks, crashed, pc,
                   neighbourhood_score, cells_todo, score_todo, generation, killed,
                   elapsed>>

\* toggle_simulating with Space just pressed.
ToggleSimulating ==
    /\ Idle
    /\ simulating' = ~simulating
    /\ toggled' = TRUE
    /\ last' = LastToggle
    /\ UNCHANGED <<cells, time_since_tick, overflow_checks, crashed, pc,
                   neighbourhood_score, cells_todo, score_todo, generation, killed,
                   elapsed>>

\* (mutant) the left button flips the cell under the cursor.
ClickCells_Toggle(m, left, right, pos) ==
    LET inserted == IF left
                    THEN IF pos \in DOMAIN m
                         THEN MapRemove(m, pos)
                         ELSE MapInsert(m, pos, "On")
                    ELSE m
    IN  IF right THEN MapRemove(inserted, pos) ELSE inserted

\* (mutant) the left button draws with a brush two cells wide.
ClickCells_Brush(m, left, right, pos) ==
    LET inserted == IF left
                    THEN MapInsert(MapInsert(m, pos, "On"),
                                   <<pos[1] + 1, pos[2]>>, "On")
                    ELSE m
    IN  IF right THEN MapRemove(inserted, pos) ELSE inserted

\* The store after detect_mouse_click with the cursor over pos: the left
\* button (without shift) inserts, then the right button removes.
ClickCells(m, left, right, pos) ==
    LET inserted == IF left THEN MapInsert(m, pos, "On") ELSE m
    IN  IF right THEN MapRemove(inserted, pos) ELSE inserted

\* detect_mouse_click with a button held.
DetectMouseClick(left, right, pos) ==
    /\ Idle
    /\ left \/ right
    /\ cells' = ClickCells(cells, left, right, pos)
    /\ killed' = IF right THEN killed \cup {pos} ELSE killed \ {pos}
    /\ last' = LastClick(left, right, pos)
    /\ UNCHANGED <<simulating, time_since_tick, overflow_checks, crashed, pc,
                   neighbourhood_score, cells_todo, score_todo, generation, toggled,
                   elapsed>>

\* (mutant) the tick fires when the accumulator reaches the threshold.
Ticks_AtThreshold(t, running) == t >= Threshold /\ running

\* (mutant) the tick does not look at the run flag.
Ticks_Unpaused(t, running) == t > Threshold

\* simulate's test after adding the frame's delta.
Ticks(t, running) == t > Threshold /\ running

\* simulate, one frame of delta time units, the generation executed in one go.
Simulate(delta) ==
    /\ Idle
    /\ IF Ticks(time_since_tick + delta, simulating)
       THEN /\ time_since_tick' = 0
            /\ elapsed' = 0
            /\ IF StepPanics(cells, overflow_checks)
               THEN /\ crashed' = TRUE
                    /\ last' = LastSimulate(delta, FALSE)
                    /\ UNCHANGED <<cells, generation, killed>>
               ELSE /\ cells' = StepCells(cells)
                    /\ generation' = generation + 1
                    /\ killed' = killed \ Revived(Alive(cells), killed)
                    /\ last' = LastSimulate(delta, TRUE)
                    /\ UNCHANGED crashed
       ELSE /\ time_since_tick' = time_since_tick + delta
            /\ elapsed' = elapsed + delta
            /\ last' = LastSimulate(delta, FALSE)
            /\ UNCHANGED <<cells, generation, killed, crashed>>
    /\ UNCHANGED <<simulating, overflow_checks, pc, neighbourhood_score,
                   cells_todo, score_todo, toggled>>

\* The frames a behaviour is followed through: the accumulator stays within
\* maxElapsed and at most maxGen generations execute.
Followed(delta, maxElapsed, maxGen) ==
    /\ time_since_tick + delta <= maxElapsed
    /\ Ticks(time_since_tick + delta, simulating) => generation < maxGen

\* ------------------------------------------------------------ specifications
\* The program from setup: clicks along a row, frames longer than a tick.
ClickCoords == (0..ClickMaxX) \X {0}
Deltas == {Threshold + 1}

Next ==
    \/ ToggleSimulating
    \/ \E left, right \in BOOLEAN, pos \in ClickCoords :
           DetectMouseClick(left, right, pos)
    \/ \E delta \in Deltas :
           Followed(delta, Threshold + 1, MaxGen) /\ Simulate(delta)

Spec == Init /\ [][Next]_vars

\* The generation applied to drawn patterns: the state after a pattern has
\* been drawn while paused, every pattern of at most MaxDrawn cells of the 3x3
\* window around (1,0), every 2x2 block of the coordinate range and a column
\* of three on the largest x; then the systems, with clicks on one cell.
MapOf(L) == [p \in L |-> "On"]
Block(o) == {o, <<o[1] + 1, o[2]>>, <<o[1], o[2] + 1>>, <<o[1] + 1, o[2] + 1>>}
Blocks == {Block(o) : o \in (MinCoord..(MaxCoord - 1)) \X (MinCoord..(MaxCoord - 1))}
Window == (0..2) \X (-1..1)
EdgeColumn == {<<MaxCoord, -1>>, <<MaxCoord, 0>>, <<MaxCoord, 1>>}
Patterns ==
    {L \in SUBSET Window : Cardinality(L) <= MaxDrawn} \cup Blocks \cup {EdgeColumn}
DrawnClicks == {<<1, 0>>}

\* The state once one of the patterns has been drawn, still paused.
InitFrom(patterns) ==
    /\ cells \in {MapOf(L) : L \in patterns}
    /\ simulating = FALSE
    /\ time_since_tick = 0
    /\ overflow_checks \in BOOLEAN
    /\ crashed = FALSE
    /\ pc = "idle"
    /\ neighbourhood_score = [p \in {} |-> 0]
    /\ cells_todo = {}
    /\ score_todo = {}
    /\ generation = 0
    /\ toggled = FALSE
    /\ killed = {}
    /\ elapsed = 0
    /\ last = [LastSetup EXCEPT !.op = "drawn"]

InitDrawn == InitFrom(Patterns)

NextDrawn ==
    \/ ToggleSimulating
    \/ \E left, right \in BOOLEAN, pos \in DrawnClicks :
           DetectMouseClick(left, right, pos)
    \/ \E delta \in Deltas :
           Followed(delta, Threshold + 1, MaxGen) /\ Simulate(delta)

SpecDrawn == InitDrawn /\ [][NextDrawn]_vars

\* The clock: empty frames, frames shorter than a tick, one just over a tick
\* and one of five ticks; clicks on the three cells of a blinker.
ClockDeltas == {0, 1, Threshold - 1, Threshold + 1, 5 * Threshold}
BlinkerCells == {<<0, 0>>, <<1, 0>>, <<2, 0>>}

NextClock ==
    \/ ToggleSimulating
    \/ \E left, right \in BOOLEAN, pos \in BlinkerCells :
           DetectMouseClick(left, right, pos)
    \/ \E delta \in ClockDeltas :
           Followed(delta, MaxElapsed, MaxGen) /\ Simulate(delta)

SpecClock == Init /\ [][NextClock]_vars

\* The program under fair scheduling: simulate is in the Update schedule, so
\* a frame is executed again and again; the frames of positive delta are the
\* ones that keep coming. The clicks are on an inner cell and on the cell at
\* the greatest coordinate. A frame that ticks is followed for the first
\* MaxGen generations, one that does not while the accumulator stays within
\* MaxElapsed.
PositiveDeltas == {1, Threshold + 1}
LiveClicks == {<<1, 0>>, <<MaxCoord, 0>>}

FollowedLive(delta) ==
    IF Ticks(time_since_tick + delta, simulating)
    THEN generation < MaxGen
    ELSE time_since_tick + delta <= MaxElapsed

EmptyFrame == FollowedLive(0) /\ Simulate(0)

PositiveFrame ==
    \E delta \in PositiveDeltas : FollowedLive(delta) /\ Simulate(delta)

NextLive ==
    \/ ToggleSimulating
    \/ \E left, right \in BOOLEAN, pos \in LiveClicks :
           DetectMouseClick(left, right, pos)
    \/ EmptyFrame
    \/ PositiveFrame

SpecLive == Init /\ [][NextLive]_vars /\ WF_vars(PositiveFrame)

\* ------------------------------------------- simulate, one iteration at a time
\* simulate up to the creation of the scoring map; a frame that does not tick
\* is the whole call.
SimulateBegin(delta) ==
    /\ Idle
    /\ IF Ticks(time_since_tick + delta, simulating)
       THEN /\ time_since_tick' = 0
            /\ elapsed' = 0
            /\ neighbourhood_score' = [p \in {} |-> 0]
            /\ cells_todo' = DOMAIN cells
            /\ pc' = "scoring"
            /\ last' = LastSimulate(delta, TRUE)
       ELSE /\ time_since_tick' = time_since_tick + delta
            /\ elapsed' = elapsed + delta
            /\ last' = LastSimulate(delta, FALSE)
            /\ UNCHANGED <<neighbourhood_score, cells_todo, pc>>
    /\ UNCHANGED <<cells, simulating, overflow_checks, crashed, score_todo,
                   generation, toggled, killed>>

\* One iteration of the first loop: the store's iterator yields position.
ScoreNext(position) ==
    /\ pc = "scoring" /\ ~crashed
    /\ position \in cells_todo
    /\ cells_todo' = cells_todo \ {position}
    /\ IF cells[position] = "On" /\ overflow_checks /\ CellOverflows(position)
       THEN /\ crashed' = TRUE
            /\ last' = [last EXCEPT !.stepped = FALSE]
            /\ UNCHANGED neighbourhood_score
       ELSE /\ neighbourhood_score' = ScoreCell(neighbourhood_score, cells, position)
            /\ UNCHANGED <<crashed, last>>
    /\ UNCHANGED <<cells, simulating, time_since_tick, overflow_checks, pc,
                   score_todo, generation, toggled, killed, elapsed>>

\* The first loop ends: the second starts to consume the scoring map.
ScoreDone ==
    /\ pc = "scoring" /\ ~crashed
    /\ cells_todo = {}
    /\ score_todo' = DOMAIN neighbourhood_score
    /\ pc' = "applying"
    /\ UNCHANGED <<cells, simulating, time_since_tick, overflow_checks, crashed,
                   neighbourhood_score, cells_todo, generation, toggled, killed,
                   elapsed, last>>

\* One iteration of the second loop: the scoring map's iterator yields
\* position.
ApplyNext(position) ==
    /\ pc = "applying" /\ ~crashed
    /\ position \in score_todo
    /\ score_todo' = score_todo \ {position}
    /\ cells' = ApplyRule(cells, position, neighbourhood_score[position])
    /\ UNCHANGED <<simulating, time_since_tick, overflow_checks, crashed, pc,
                   neighbourhood_score, cells_todo, generation, toggled, killed,
                   elapsed, last>>

\* The second loop ends and simulate returns.
ApplyDone ==
    /\ pc = "applying" /\ ~crashed
    /\ score_todo = {}
    /\ pc' = "idle"
    /\ neighbourhood_score' = [p \in {} |-> 0]
    /\ generation' = generation + 1
    /\ killed' = killed \ Revived(Alive(last.pre), killed)
    /\ UNCHANGED <<cells, simulating, time_since_tick, overflow_checks, crashed,
                   cells_todo, score_todo, toggled, elapsed, last>>

\* A live cell at the greatest coordinate.
EdgeCell == {<<MaxCoord, 0>>}

\* The program with simulate's loops followed one iteration at a time, in
\* every iteration order, from the patterns drawn on the cells of a blinker
\* and from the cell at the greatest coordinate.
InitOrder == InitFrom(SUBSET BlinkerCells \cup {EdgeCell})

NextOrder ==
    \/ ToggleSimulating
    \/ \E left, right \in BOOLEAN, pos \in DrawnClicks :
           DetectMouseClick(left, right, pos)
    \/ \E delta \in Deltas :
           Followed(delta, Threshold + 1, MaxGen) /\ SimulateBegin(delta)
    \/ \E position \in cells_todo : ScoreNext(position)
    \/ ScoreDone
    \/ \E position \in score_todo : ApplyNext(position)
    \/ ApplyDone

SpecOrder == InitOrder /\ [][NextOrder]_vars

\* The second loop as a whole, in some iteration order.
ApplyLoop ==
    /\ pc = "applying" /\ ~crashed
    /\ score_todo # {}
    /\ score_todo = DOMAIN neighbourhood_score
    /\ cells' = ApplyAll(cells, neighbourhood_score, score_todo)
    /\ score_todo' = {}
    /\ UNCHANGED <<simulating, time_since_tick, overflow_checks, crashed, pc,
                   neighbourhood_score, cells_todo, generation, toggled, killed,
                   elapsed, last>>

\* The program with simulate's first loop followed one iteration at a time,
\* in every iteration order, from the patterns that fill the window or all of
\* it but one cell: their scoring maps hold the largest scores.
DensePatterns == {L \in SUBSET Window : Cardinality(L) >= Cardinality(Window) - 1}

InitScore == InitFrom(DensePatterns)

NextScore ==
    \/ ToggleSimulating
    \/ \E left, right \in BOOLEAN, pos \in DrawnClicks :
           DetectMouseClick(left, right, pos)
    \/ \E delta \in Deltas :
           Followed(delta, Threshold + 1, MaxGen) /\ SimulateBegin(delta)
    \/ \E position \in cells_todo : ScoreNext(position)
    \/ ScoreDone
    \/ ApplyLoop
    \/ ApplyDone

SpecScore == InitScore /\ [][NextScore]_vars

\* ------------------------------------------------------------------- claims
\* The live set touches no extreme coordinate: the lattice around it is the
\* unbounded one.
Interior(L) ==
    \A p \in L : /\ MinCoord < p[1] /\ p[1] < MaxCoord
                 /\ MinCoord < p[2] /\ p[2] < MaxCoord

\* Conway's next generation of the live set L.
Conway(L) ==
    {c \in Coord \X Coord :
        \/ c \in L /\ NeighbourCount(c, L) \in {2, 3}
        \/ c \notin L /\ NeighbourCount(c, L) = 3}

\* The last system call executed a generation.
Stepped == last.op = "simulate" /\ last.stepped /\ pc = "idle"

\* C1: one executed generation yields exactly Conway's next generation of the
\* live set it started from (a live set within the coordinate window): a cell
\* is alive afterwards iff it was alive with 2 or 3 live neighbours or dead
\* with exactly 3, all counts taken in the set before the generation.
C1_ConwayStep ==
    (Stepped /\ Interior(Alive(last.pre)))
        => Alive(cells) = Conway(Alive(last.pre))

\* C1 happens: a generation with a birth, a survival, a death, and dead cells
\* of 2 and of 4 live neighbours that stay dead.
C1_Witness ==
    LET L == Alive(last.pre)
    IN  /\ Stepped /\ Interior(L)
        /\ \E c \in Coord \X Coord : c \notin L /\ c \in Alive(cells)
        /\ \E c \in L : c \in Alive(cells)
        /\ \E c \in L : c \notin Alive(cells)
        /\ \E c \in Coord \X Coord :
               c \notin L /\ NeighbourCount(c, L) = 2 /\ c \notin Alive(cells)
        /\ \E c \in Coord \X Coord :
               c \notin L /\ NeighbourCount(c, L) = 4 /\ c \notin Alive(cells)

BlinkerRow == {<<0, 0>>, <<1, 0>>, <<2, 0>>}
BlinkerColumn == {<<1, -1>>, <<1, 0>>, <<1, 1>>}

\* C2: a generation from the row (0,0),(1,0),(2,0) yields exactly the column
\* (1,-1),(1,0),(1,1), and the generation right after it yields exactly the
\* row again.
C2_Blinker ==
    /\ (Stepped /\ Alive(last.pre) = BlinkerRow) => Alive(cells) = BlinkerColumn
    /\ (Stepped /\ last.rep = 2 /\ Alive(last.pre2) = BlinkerRow)
           => Alive(cells) = BlinkerRow

\* C2 happens: two generations in a row from the blinker's row, through the
\* column.
C2_Witness ==
    /\ Stepped /\ last.rep = 2
    /\ Alive(last.pre2) = BlinkerRow
    /\ Alive(last.pre) = BlinkerColumn
    /\ Alive(cells) = BlinkerRow

\* C3: a generation from a live set that is exactly a 2x2 block, at any
\* origin, leaves exactly that block, and so does the generation right after
\* it.
C3_BlockStill ==
    /\ (Stepped /\ Alive(last.pre) \in Blocks) => Alive(cells) = Alive(last.pre)
    /\ (Stepped /\ last.rep = 2 /\ Alive(last.pre2) \in Blocks)
           => Alive(cells) = Alive(last.pre2)

\* C3 happens: two generations in a row from a block away from the clicked
\* window.
C3_Witness ==
    /\ Stepped /\ last.rep = 2
    /\ Alive(last.pre2) = Block(<<-3, -3>>)
    /\ Alive(cells) = Block(<<-3, -3>>)

\* C4: after a generation (from a live set within the coordinate window) no
\* cell that was alive with 0, 1, or 4 or more live neighbours is alive; a live
\* cell without live neighbours has an entry of 0 in the scoring map, and a
\* single cell alone leaves the empty live set.
C4_Death ==
    LET L == Alive(last.pre)
    IN  (Stepped /\ Interior(L)) =>
            /\ \A c \in L : NeighbourCount(c, L) \notin {2, 3} => c \notin Alive(cells)
            /\ \A c \in L : NeighbourCount(c, L) = 0 =>
                   /\ c \in DOMAIN ScoreMap(last.pre)
                   /\ ScoreMap(last.pre)[c] = 0
            /\ Cardinality(L) = 1 => Alive(cells) = {}

\* C4 happens: a generation from a single cell, which leaves nothing.
C4_WitnessIsolated ==
    /\ Stepped
    /\ Cardinality(Alive(last.pre)) = 1
    /\ Alive(cells) = {}

\* C5: a frame while running executes a generation iff the accumulator with
\* the frame's delta added exceeds the threshold; frames whose deltas sum to
\* no more than the threshold execute none; a frame executes one generation
\* however far over the threshold it is; and the accumulator is 0 right after
\* a frame that executed one.
C5_ClockGating ==
    last.op = "simulate" =>
        /\ last.was => ((last.stepped \/ crashed)
                            <=> last.before + last.delta > Threshold)
        /\ last.sum <= Threshold => ~last.stepped
        /\ last.stepped =>
               /\ time_since_tick = 0
               /\ generation = last.gen + 1
               /\ Interior(Alive(last.pre)) => Alive(cells) = Conway(Alive(last.pre))

\* C5 happens: a frame of five thresholds turns the blinker's row into its
\* column, one generation and not five.
C5_WitnessNoCatchUp ==
    /\ Stepped
    /\ last.delta = 5 * Threshold
    /\ Alive(last.pre) = BlinkerRow
    /\ Alive(cells) = BlinkerColumn

\* C6: a frame while paused executes no generation, whatever its delta and
\* the accumulator: the store and the generation count are as before it.
C6_PausedNoStep ==
    (last.op = "simulate" /\ ~last.was) =>
        /\ ~last.stepped
        /\ ~crashed
        /\ cells = last.pre
        /\ generation = last.gen

\* C6 happens: paused again after a generation, a frame takes the accumulator
\* over the threshold and the column stays.
C6_WitnessPausedOverThreshold ==
    /\ last.op = "simulate" /\ ~last.was
    /\ last.before + last.delta > Threshold
    /\ generation >= 1
    /\ Alive(cells) = BlinkerColumn

\* C7: setup leaves an empty store, paused, the accumulator at 0; and as long
\* as no toggle has been executed the clock is paused and no generation has
\* been executed.
C7_StartsPaused ==
    /\ last.op = "setup" =>
           /\ cells = EmptyMap
           /\ ~simulating
           /\ time_since_tick = 0
    /\ ~toggled =>
           /\ ~simulating
           /\ generation = 0
           /\ ~last.stepped

\* C7 happens: no toggle yet, the row drawn, and a frame that takes the
\* accumulator over the threshold.
C7_WitnessNoToggle ==
    /\ ~toggled
    /\ last.op = "simulate"
    /\ last.before + last.delta > Threshold
    /\ Alive(cells) = BlinkerRow

\* C8: after a left click on c, once or repeated, the live set is the one
\* before the first of them with c added; after a right click on c, once or
\* repeated, with c in the set or not, it is the one before the first of them
\* without c; neither is an error.
C8_EditsIdempotent ==
    last.op = "click" =>
        /\ ~crashed
        /\ (last.left /\ ~last.right)
               => Alive(cells) = Alive(last.pre) \cup {last.pos}
        /\ last.right => Alive(cells) = Alive(last.pre) \ {last.pos}

\* C8 happens: the same left click twice in a row on a cell that was dead.
C8_WitnessTwice ==
    /\ last.op = "click" /\ last.rep = 2
    /\ last.left /\ ~last.right
    /\ last.pos \notin Alive(last.pre)
    /\ generation >= 1

\* C9: no coordinate is alive whose most recent edit cleared it, unless an
\* edit set it alive or a generation revived it (dead with exactly 3 live
\* neighbours) since.
C9_ClearedStayDead == killed \cap Alive(cells) = {}

\* C9 happens: a generation revives a coordinate an edit had cleared, while
\* another cleared coordinate stays dead.
C9_WitnessRevived ==
    /\ Stepped
    /\ \E c \in last.killed : c \in Alive(cells)
    /\ killed # {}

\* C10: whatever the order in which the two loops visit their entries, the
\* scoring map after the first loop and the store after the second are those
\* of the generation computed from the store the call started with.
C10_OrderIndependent ==
    /\ (pc = "applying" /\ ~crashed) => neighbourhood_score = ScoreMap(last.pre)
    /\ (Stepped /\ ~crashed) => cells = StepCells(last.pre)

\* C10 happens: the loops have turned the blinker's row into its column.
C10_WitnessBlinker ==
    /\ Stepped
    /\ Alive(last.pre) = BlinkerRow
    /\ Alive(cells) = BlinkerColumn

\* C11: the store is sparse: in every state every key of the store maps to
\* On, so a coordinate is alive exactly when it is a key; the clicks and the
\* generations keep it so.
C11_Sparse ==
    /\ \A p \in DOMAIN cells : cells[p] = "On"
    /\ Alive(cells) = DOMAIN cells

\* C11 happens: after a right click cleared a coordinate, a generation has
\* removed a key of the store and inserted another.
C11_WitnessRemoved ==
    /\ Stepped
    /\ killed # {}
    /\ \E c \in DOMAIN last.pre : c \notin DOMAIN cells
    /\ \E c \in DOMAIN cells : c \notin DOMAIN last.pre

\* The store of a generation built in a fresh container from the snapshot m
\* alone: the coordinates of the scoring map of m that the rule makes alive,
\* their state read in m.
FreshBuild(m) ==
    LET score == ScoreMap(m)
    IN  MapOf({p \in DOMAIN score :
                  IF p \in Alive(m) THEN score[p] \in {2, 3} ELSE score[p] = 3})

\* C12: a generation replaces the store as a whole although the second loop
\* edits it in place, one entry of the scoring map at a time: in whatever
\* order the entries are visited, an entry already visited has the state of
\* the store built afresh from the store the call started with, an entry not
\* yet visited still has its state of before, and at the end the store is
\* the one built afresh; and no click or toggle runs while the loops run, so
\* none sees the store half edited.
C12_AtomicReplace ==
    /\ pc # "idle" => last.op = "simulate"
    /\ (pc = "scoring" \/ crashed) => cells = last.pre
    /\ (pc = "applying" /\ ~crashed) =>
           LET fresh == DOMAIN FreshBuild(last.pre)
               visited == DOMAIN neighbourhood_score \ score_todo
           IN  DOMAIN cells = (fresh \cap visited) \cup (DOMAIN last.pre \ visited)
    /\ (Stepped /\ ~crashed) => cells = FreshBuild(last.pre)

\* C12 happens: in the middle of the second loop the store is neither the one
\* the call started with nor the one it ends with.
C12_WitnessHalfEdited ==
    /\ pc = "applying"
    /\ score_todo # {}
    /\ cells # last.pre
    /\ cells # FreshBuild(last.pre)

\* C13: a generation has no error condition: from every live set, one with
\* cells at the least or greatest coordinate included, a frame that ticks
\* executes the generation, and none of the x-1, x+1, y-1, y+1 it computes
\* overflows.
C13_StepTotal ==
    (last.op = "simulate" /\ Ticks(last.before + last.delta, last.was)) =>
        /\ ~crashed
        /\ last.stepped
        /\ \A p \in Alive(last.pre) : ~CellOverflows(p)

\* The two outcomes of a generation from a live cell at an extreme coordinate:
\* with overflow checks the call panics before it edits the store, without
\* them the neighbours wrap to the opposite extreme.
C13_Panicked ==
    /\ crashed /\ overflow_checks
    /\ cells = last.pre
    /\ \E p \in Alive(last.pre) : CellOverflows(p)

C13_Wrapped ==
    /\ Stepped /\ ~overflow_checks
    /\ \E p \in Alive(last.pre) : p[1] = MaxCoord
    /\ \E q \in Alive(cells) : q[1] = MinCoord

\* C14: the run flag changes only on a toggle: a toggle flips it, two toggles
\* in a row restore it, and a click or a frame, with or without a generation,
\* leaves it as it was.
C14_RunFlagFrame ==
    /\ last.op = "toggle" => simulating = ~last.was
    /\ (last.op = "toggle" /\ last.rep = 2) => simulating = last.was2
    /\ last.op \in {"click", "simulate"} => simulating = last.was

\* C14 happens: after a generation the simulation was paused and resumed by
\* two toggles in a row.
C14_WitnessTwoToggles ==
    /\ last.op = "toggle" /\ last.rep = 2
    /\ last.was2 /\ simulating
    /\ generation >= 1

\* C15: pausing does not stop the accumulator: a frame of a paused simulation
\* adds its delta to it, and a toggle neither freezes nor resets it; so when
\* the simulation runs with the accumulator already over the threshold, the
\* next frame, whatever its delta, zero included, executes a generation and
\* resets the accumulator to 0.
C15_PausedAccumulates ==
    /\ (last.op = "simulate" /\ ~last.was) =>
           time_since_tick = last.before + last.delta
    /\ last.op = "toggle" => time_since_tick = last.before
    /\ (last.op = "simulate" /\ last.was /\ last.before > Threshold) =>
           /\ last.stepped
           /\ generation = last.gen + 1
           /\ time_since_tick = 0

\* C15 happens: an empty frame executes a generation, the accumulator having
\* passed the threshold while the simulation was paused.
C15_WitnessEmptyFrameSteps ==
    /\ Stepped
    /\ last.delta = 0
    /\ last.before > Threshold
    /\ time_since_tick = 0

\* C16: what the operations leave alone: a click changes the state of the
\* cell under the cursor at most, and neither the run flag, the accumulator
\* nor the generation count; a toggle leaves the store and the accumulator
\* unchanged; a frame that executes no generation leaves the store unchanged.
C16_Frame ==
    /\ last.op = "click" =>
           /\ DOMAIN cells \ {last.pos} = DOMAIN last.pre \ {last.pos}
           /\ simulating = last.was
           /\ time_since_tick = last.before
           /\ generation = last.gen
    /\ last.op = "toggle" =>
           /\ cells = last.pre
           /\ time_since_tick = last.before
           /\ generation = last.gen
    /\ (last.op = "simulate" /\ ~last.stepped) =>
           /\ cells = last.pre
           /\ generation = last.gen

\* C16 happens: while a simulation runs between two ticks, a right click
\* clears one live cell of several.
C16_WitnessOneCleared ==
    /\ last.op = "click" /\ last.right /\ ~last.left
    /\ last.pos \in DOMAIN last.pre
    /\ Cardinality(DOMAIN cells) >= 2
    /\ simulating /\ time_since_tick > 0
    /\ generation >= 1

\* C17: while the simulation stays running and frames of positive delta keep
\* coming, a generation is eventually executed, and then the next one: the
\* accumulator cannot stay at or below the threshold forever. (Stated for
\* each of the first MaxGen generations.)
C17_TickEventually ==
    \A g \in 0..(MaxGen - 1) :
        (simulating /\ generation = g) ~> (~simulating \/ generation > g)

\* What holds instead: a running simulation reaches its next generation
\* unless the tick panics on a live cell at an extreme coordinate.
C17_TickUnlessPanic ==
    \A g \in 0..(MaxGen - 1) :
        (simulating /\ generation = g) ~>
            (~simulating \/ generation > g \/ crashed)

\* The tick of a running simulation has panicked on a cell drawn at the
\* greatest coordinate: no frame is executed any more.
C17_WitnessPanic ==
    /\ crashed /\ simulating
    /\ last.op = "simulate" /\ ~last.stepped
    /\ <<MaxCoord, 0>> \in Alive(cells)
    /\ time_since_tick = 0

\* The coordinates of the live set L and their Moore neighbours.
Neighbourhood(L) ==
    {<<p[1] + dx, p[2] + dy>> : p \in L, dx \in -1..1, dy \in -1..1}

\* C18: all along a generation every value of the scoring map is between 0
\* and 8, so the i8 never overflows; for a live set within the coordinate
\* window, its keys are the live cells visited so far and their Moore
\* neighbours and each value is the number of visited live neighbours of its
\* key, so that when the first loop ends the keys are exactly the cells alive
\* or adjacent to an alive cell before the generation, each with its number
\* of live neighbours.
C18_Scores ==
    (pc \in {"scoring", "applying"} /\ ~crashed) =>
        LET L == Alive(last.pre)
            visited == L \ cells_todo
        IN  /\ \A q \in DOMAIN neighbourhood_score :
                   neighbourhood_score[q] \in 0..8
            /\ Interior(L) =>
                   /\ DOMAIN neighbourhood_score = Neighbourhood(visited)
                   /\ \A q \in DOMAIN neighbourhood_score :
                          neighbourhood_score[q] = NeighbourCount(q, visited)

\* C18 happens: the first loop has ended on the full window: its centre scores
\* 8, a live corner 3, and a dead cell off a corner 1.
C18_WitnessEight ==
    /\ pc = "applying"
    /\ Alive(last.pre) = Window
    /\ neighbourhood_score[<<1, 0>>] = 8
    /\ neighbourhood_score[<<0, -1>>] = 3
    /\ neighbourhood_score[<<-1, -2>>] = 1

====
